---- MODULE Spec2Model ----
(***************************************************************************)
(* State-machine model of cpu_stress.py: main(), CPUStressTest.run, the    *)
(* multiprocessing.Pool running _stress_worker tasks, and the CPUMonitor   *)
(* sampling thread.  Wall-clock time is a global tick counter `now`; a     *)
(* time.sleep(x) blocks its caller until at least x seconds of ticks have  *)
(* passed, and one busy batch of 200 operations takes BatchTicks ticks.    *)
(* Time advances only when no process can take a step at the current       *)
(* instant, so every interleaving of the steps of one instant is explored. *)
(***************************************************************************)
EXTENDS Integers, Sequences, FiniteSets, TLC

\* ------------------------------------------------------------------ bounds
MaxThreads == 2        \* largest worker count / core count explored
MaxDuration == 2       \* largest --duration (seconds) explored
TicksPerSec == 10      \* clock resolution: ticks of `now` per second
BatchTicks == 1        \* ticks one 200-operation batch takes
MaxLoopThreads == 1    \* most loop threads of one monitor alive at once
MaxApiTime == 10       \* ticks explored when the monitor is driven by any caller
MaxCounter == 2        \* largest value of a /proc/stat counter given to get_util

\* ------------------------------------------------------- program constants
BatchSize == 200       \* range(200) in the busy loop
UtilGapMs == 100       \* time.sleep(0.1) between the two /proc/stat reads
SampleGapMs == 500     \* time.sleep(0.5) at the end of a loop iteration
StopWaitMs == 500      \* time.sleep(0.5) in stop()

\* AsyncResult states kept in `results` (an operation count is >= 0)
Pending == -1
Raised == -2

\* ------------------------------------------------------------------ inputs
CpuFlagValues == BOOLEAN
DurationValues == 0..MaxDuration
PercentValues == {0, 1, 50, 100, 150}
ThreadArgValues == (-1)..MaxThreads     \* 0 stands for "not given" (falsy)
CoreValues == 1..MaxThreads
TempRaws == {0, 45000}                 \* millidegrees read from the sensor
StatLines == { <<10, 0, 5, 100, 0, 0, 0>>,   \* first line of /proc/stat, after "cpu"
               <<15, 0, 5, 105, 0, 0, 0>>,
               <<7, 1>> }

Procs == 1..MaxThreads
LoopIds == 1..MaxLoopThreads

VARIABLES
  mainpc,      \* position of main()/run()
  threads, duration, percent,   \* CPUStressTest fields
  now,         \* wall clock, in ticks
  main_ready,  \* wake-up time of the caller's sleep in stop()
  start_ts, end_ts, ops, stat, throughput,
  running, temps, utils,        \* CPUMonitor fields
  lt,          \* the monitor's loop threads: [pc, start, ready, t, u, a] each
  ppc, pw,     \* pool processes: position and _stress_worker locals
  taskq, results, closed        \* the pool's task queue and AsyncResults

vars == <<mainpc, threads, duration, percent, now, main_ready, start_ts, end_ts,
          ops, stat, throughput, running, temps, utils, lt, ppc, pw, taskq,
          results, closed>>

cfgVars == <<threads, duration, percent>>
monVars == <<running, temps, utils, lt>>
poolVars == <<ppc, pw, taskq, results, closed>>
repVars == <<start_ts, end_ts, ops, stat, throughput>>
\* what a step of a loop thread, and of a pool process, cannot touch
loopFrame == <<mainpc, cfgVars, now, main_ready, repVars, poolVars>>
procFrame == <<mainpc, cfgVars, now, main_ready, repVars, monVars>>

\* ----------------------------------------------------------------- helpers
CeilDiv(a, b) == (a + b - 1) \div b

\* least number of ticks that covers ms milliseconds
MsTicks(ms) == CeilDiv(ms * TicksPerSec, 1000)

RECURSIVE SumSeq(_)
SumSeq(s) == IF s = <<>> THEN 0 ELSE Head(s) + SumSeq(Tail(s))

RECURSIVE MaxSeq(_)
MaxSeq(s) == IF Len(s) = 1 THEN s[1]
             ELSE IF Head(s) >= MaxSeq(Tail(s)) THEN Head(s) ELSE MaxSeq(Tail(s))

RECURSIVE MinSeq(_)
MinSeq(s) == IF Len(s) = 1 THEN s[1]
             ELSE IF Head(s) <= MinSeq(Tail(s)) THEN Head(s) ELSE MinSeq(Tail(s))

SubSeqTo(s, n) == SubSeq(s, 1, IF Len(s) < n THEN Len(s) ELSE n)

NoWorker == [task |-> 0, end |-> 0, s |-> 0, ops |-> 0, ready |-> 0]
NoStat == [avg_temp |-> -1, max_temp |-> -1, min_temp |-> -1, avg_util |-> -1]
NoLoop == [pc |-> "unstarted", start |-> 0, ready |-> 0, t |-> 0, u |-> 0, a |-> <<>>]

\* ------------------------------------------------------------- CPUMonitor
\* get_temp: the sensor file is absent (0), holds an integer (raw/1000.0, kept
\* here in thousandths of a degree), or cannot be read/parsed: the exception of
\* open()/int() is not caught and ends the calling thread.
TempReads == {"absent", "value", "unreadable"}

\* get_util's arithmetic on the two lines read (fields after the "cpu" label):
\* b[4] is idle, b[1:8] the seven counters; a line too short for b[4] raises
\* IndexError, which the except clause turns into 0.  Result in thousandths of
\* a percent.
StatTotal(l) == SumSeq(SubSeqTo(l, 7))
UtilOf(a, b) ==
  IF Len(a) < 4 \/ Len(b) < 4 THEN 0
  ELSE LET idle == b[4] - a[4]
           total == StatTotal(b) - StatTotal(a)
       IN IF total > 0 THEN (100000 * (total - idle)) \div total ELSE 0

\* an append test that lets a zero reading through
ShouldAppendNonNegative(x) == x >= 0

\* `if t > 0:` / `if u > 0:` in loop
ShouldAppend(x) == x > 0

\* a loop test that looks at the duration alone
LoopContinuesIgnoringStop(k) == (now - lt[k].start) < duration * TicksPerSec

\* a loop test that lets an iteration begin exactly at start + duration
LoopContinuesInclusive(k) ==
  running /\ (now - lt[k].start) <= duration * TicksPerSec

\* `while self.running and time.time() - start < self.duration`
LoopContinues(k) ==
  running /\ (now - lt[k].start) < duration * TicksPerSec

LoopActive(k) == lt[k].pc \in {"begin", "check", "temp", "util_a", "util_b", "append", "sleep"}
LoopInIteration(k) == lt[k].pc \in {"temp", "util_a", "util_b", "append", "sleep"}
LoopCanStep(k) ==
  \/ lt[k].pc \in {"begin", "check", "temp", "util_a", "append"}
  \/ lt[k].pc \in {"util_b", "sleep"} /\ now >= lt[k].ready
LoopTimeBlocked(k) == lt[k].pc \in {"util_b", "sleep"} /\ now < lt[k].ready

\* start = time.time()
loop_begin(k) ==
  /\ lt[k].pc = "begin"
  /\ lt' = [lt EXCEPT ![k].pc = "check", ![k].start = now]
  /\ UNCHANGED <<running, temps, utils>>
  /\ UNCHANGED loopFrame

loop_check(k) ==
  /\ lt[k].pc = "check"
  /\ lt' = [lt EXCEPT ![k].pc = IF LoopContinues(k) THEN "temp" ELSE "done"]
  /\ UNCHANGED <<running, temps, utils>>
  /\ UNCHANGED loopFrame

loop_get_temp(k) ==
  /\ lt[k].pc = "temp"
  /\ \E r \in TempReads :
       \/ r = "absent" /\ lt' = [lt EXCEPT ![k].pc = "util_a", ![k].t = 0]
       \/ r = "value" /\ \E raw \in TempRaws :
                           lt' = [lt EXCEPT ![k].pc = "util_a", ![k].t = raw]
       \/ r = "unreadable" /\ lt' = [lt EXCEPT ![k].pc = "crashed", ![k].t = 0]
  /\ UNCHANGED <<running, temps, utils>>
  /\ UNCHANGED loopFrame

\* first read of /proc/stat, then time.sleep(0.1)
loop_util_first(k) ==
  /\ lt[k].pc = "util_a"
  /\ \/ lt' = [lt EXCEPT ![k].pc = "append", ![k].u = 0]      \* open() failed
     \/ \E a \in StatLines :
          lt' = [lt EXCEPT ![k].pc = "util_b", ![k].a = a,
                           ![k].ready = now + MsTicks(UtilGapMs)]
  /\ UNCHANGED <<running, temps, utils>>
  /\ UNCHANGED loopFrame

\* second read and the arithmetic
loop_util_second(k) ==
  /\ lt[k].pc = "util_b"
  /\ now >= lt[k].ready
  /\ \/ lt' = [lt EXCEPT ![k].pc = "append", ![k].u = 0, ![k].a = <<>>, ![k].ready = 0]
     \/ \E b \in StatLines :
          lt' = [lt EXCEPT ![k].pc = "append", ![k].u = UtilOf(lt[k].a, b),
                           ![k].a = <<>>, ![k].ready = 0]
  /\ UNCHANGED <<running, temps, utils>>
  /\ UNCHANGED loopFrame

\* the two conditional appends, then time.sleep(0.5)
loop_append(k) ==
  /\ lt[k].pc = "append"
  /\ temps' = IF ShouldAppend(lt[k].t) THEN Append(temps, lt[k].t) ELSE temps
  /\ utils' = IF ShouldAppend(lt[k].u) THEN Append(utils, lt[k].u) ELSE utils
  /\ lt' = [lt EXCEPT ![k].pc = "sleep", ![k].t = 0, ![k].u = 0,
                       ![k].ready = now + MsTicks(SampleGapMs)]
  /\ UNCHANGED running
  /\ UNCHANGED loopFrame

\* Variant of loop_wake: after the sleep the next iteration begins untested
loop_wake_no_check(k) ==
  /\ lt[k].pc = "sleep"
  /\ now >= lt[k].ready
  /\ lt' = [lt EXCEPT ![k].pc = "temp", ![k].ready = 0]
  /\ UNCHANGED <<running, temps, utils>>
  /\ UNCHANGED loopFrame

\* back from time.sleep(0.5) to the while test
loop_wake(k) ==
  /\ lt[k].pc = "sleep"
  /\ now >= lt[k].ready
  /\ lt' = [lt EXCEPT ![k].pc = "check", ![k].ready = 0]
  /\ UNCHANGED <<running, temps, utils>>
  /\ UNCHANGED loopFrame

LoopStep(k) ==
  \/ loop_begin(k) \/ loop_check(k) \/ loop_get_temp(k) \/ loop_util_first(k)
  \/ loop_util_second(k) \/ loop_append(k) \/ loop_wake(k)

\* CPUMonitor.start: a new daemon thread running loop (it takes the first slot
\* that holds no live thread)
LoopSlotFree(k) == lt[k].pc \in {"unstarted", "done", "crashed"}
MonitorStart ==
  /\ \E k \in LoopIds :
       /\ LoopSlotFree(k)
       /\ \A j \in LoopIds : j < k => ~LoopSlotFree(j)
       /\ lt' = [lt EXCEPT ![k] = [NoLoop EXCEPT !.pc = "begin"]]
  /\ UNCHANGED <<running, temps, utils>>

\* Variant of StopWakeTime: stop() returns without waiting
StopWakeTimeNoWait == now

\* The instant at which the caller of stop() resumes: time.sleep(0.5)
StopWakeTime == now + MsTicks(StopWaitMs)

\* CPUMonitor.stop, first half: clear the flag and go to sleep for 0.5 s
MonitorStopSignal ==
  /\ running' = FALSE
  /\ main_ready' = StopWakeTime
  /\ UNCHANGED <<temps, utils, lt>>

\* Variant of Summary: an empty series is reported as "no value" (-1)
SummaryNoneWhenEmpty ==
  [avg_temp |-> IF temps # <<>> THEN SumSeq(temps) \div Len(temps) ELSE -1,
   max_temp |-> IF temps # <<>> THEN MaxSeq(temps) ELSE -1,
   min_temp |-> IF temps # <<>> THEN MinSeq(temps) ELSE -1,
   avg_util |-> IF utils # <<>> THEN SumSeq(utils) \div Len(utils) ELSE -1]

\* CPUMonitor.stop, second half: the summary over the series as they are now
Summary ==
  [avg_temp |-> IF temps # <<>> THEN SumSeq(temps) \div Len(temps) ELSE 0,
   max_temp |-> IF temps # <<>> THEN MaxSeq(temps) ELSE 0,
   min_temp |-> IF temps # <<>> THEN MinSeq(temps) ELSE 0,
   avg_util |-> IF utils # <<>> THEN SumSeq(utils) \div Len(utils) ELSE 0]


\* --------------------------------------------------------- _stress_worker
\* Variant of BusyContinues: work = percent / 200.0
BusyContinuesHalf(p) == (now - pw[p].s) * 200 < percent * TicksPerSec

\* Variant of BusyContinues: work = percent / 100 in integer arithmetic
BusyContinuesIntDiv(p) == (now - pw[p].s) < (percent \div 100) * TicksPerSec

\* work = percent / 100.0 seconds: `time.time() - s < work`
BusyContinues(p) == (now - pw[p].s) * 100 < percent * TicksPerSec

\* sleep = (100 - percent) / 100.0, in hundredths of a second
IdleHundredths(pct) == 100 - pct

\* a sleep test that also sleeps for a zero idle fraction
ShouldSleepAlways(pct) == IdleHundredths(pct) >= 0

\* `if sleep > 0:`
ShouldSleep(pct) == IdleHundredths(pct) > 0

\* Variant of SleepTicks: every cycle sleeps one whole second
SleepTicksWholeSecond(pct) == TicksPerSec

SleepTicks(pct) == CeilDiv(IdleHundredths(pct) * TicksPerSec, 100)

\* a deadline test that lets the cycle starting exactly at `end` run
BeforeDeadlineInclusive(p) == now <= pw[p].end

\* `while time.time() < end`
BeforeDeadline(p) == now < pw[p].end

ProcCanStep(p) ==
  \/ ppc[p] = "idle" /\ (taskq # <<>> \/ closed)
  \/ ppc[p] = "outer"
  \/ ppc[p] \in {"inner", "sleep"} /\ now >= pw[p].ready
ProcTimeBlocked(p) == ppc[p] \in {"inner", "sleep"} /\ now < pw[p].ready

\* a pool process takes the next task and enters _stress_worker (lines 133-136);
\* the processes of a pool are interchangeable: the lowest idle one takes it
proc_take(p) ==
  /\ ppc[p] = "idle"
  /\ \A q \in Procs : q < p => ppc[q] # "idle"
  /\ taskq # <<>>
  /\ taskq' = Tail(taskq)
  /\ pw' = [pw EXCEPT ![p] = [task |-> Head(taskq), end |-> now + duration * TicksPerSec,
                              s |-> 0, ops |-> 0, ready |-> 0]]
  /\ ppc' = [ppc EXCEPT ![p] = "outer"]
  /\ UNCHANGED <<results, closed>>
  /\ UNCHANGED procFrame

\* the deadline test; on exit the return value becomes the task's result
worker_outer(p) ==
  /\ ppc[p] = "outer"
  /\ IF BeforeDeadline(p)
       THEN /\ pw' = [pw EXCEPT ![p].s = now]
            /\ ppc' = [ppc EXCEPT ![p] = "inner"]
            /\ UNCHANGED results
       ELSE /\ results' = [results EXCEPT ![pw[p].task] = pw[p].ops]
            /\ pw' = [pw EXCEPT ![p] = NoWorker]
            /\ ppc' = [ppc EXCEPT ![p] = "idle"]
  /\ UNCHANGED <<taskq, closed>>
  /\ UNCHANGED procFrame

\* Variant of worker_batch: the operation counter is one object shared by all
\* running workers
worker_batch_shared(p) ==
  /\ ppc[p] = "inner"
  /\ now >= pw[p].ready
  /\ BusyContinues(p)
  /\ pw' = [q \in Procs |->
              IF q = p THEN [pw[q] EXCEPT !.ops = @ + BatchSize, !.ready = now + BatchTicks]
              ELSE IF ppc[q] \in {"outer", "inner", "sleep"}
                     THEN [pw[q] EXCEPT !.ops = @ + BatchSize]
                     ELSE pw[q]]
  /\ UNCHANGED <<ppc, taskq, results, closed>>
  /\ UNCHANGED procFrame

\* the busy-phase test, made when the batch before it (if any) is over: run one
\* more batch of 200 operations, which takes BatchTicks
worker_batch(p) ==
  /\ ppc[p] = "inner"
  /\ now >= pw[p].ready
  /\ BusyContinues(p)
  /\ pw' = [pw EXCEPT ![p].ops = @ + BatchSize, ![p].ready = now + BatchTicks]
  /\ UNCHANGED <<ppc, taskq, results, closed>>
  /\ UNCHANGED procFrame

\* ... or leave the busy phase: `if sleep > 0: time.sleep(sleep)`
worker_after_busy(p) ==
  /\ ppc[p] = "inner"
  /\ now >= pw[p].ready
  /\ ~BusyContinues(p)
  /\ IF ShouldSleep(percent)
       THEN /\ pw' = [pw EXCEPT ![p].ready = now + SleepTicks(percent)]
            /\ ppc' = [ppc EXCEPT ![p] = "sleep"]
       ELSE /\ pw' = [pw EXCEPT ![p].ready = 0]
            /\ ppc' = [ppc EXCEPT ![p] = "outer"]
  /\ UNCHANGED <<taskq, results, closed>>
  /\ UNCHANGED procFrame

\* an unexpected exception inside the busy loop: the pool process stores it in
\* the task's AsyncResult and goes on serving the queue
worker_fault(p) ==
  /\ ppc[p] = "inner"
  /\ now >= pw[p].ready
  /\ BusyContinues(p)
  /\ results' = [results EXCEPT ![pw[p].task] = Raised]
  /\ pw' = [pw EXCEPT ![p] = NoWorker]
  /\ ppc' = [ppc EXCEPT ![p] = "idle"]
  /\ UNCHANGED <<taskq, closed>>
  /\ UNCHANGED procFrame

worker_wake(p) ==
  /\ ppc[p] = "sleep"
  /\ now >= pw[p].ready
  /\ pw' = [pw EXCEPT ![p].ready = 0]
  /\ ppc' = [ppc EXCEPT ![p] = "outer"]
  /\ UNCHANGED <<taskq, results, closed>>
  /\ UNCHANGED procFrame

\* after pool.close() an idle process with nothing left to do exits
proc_exit(p) ==
  /\ ppc[p] = "idle"
  /\ taskq = <<>>
  /\ closed
  /\ ppc' = [ppc EXCEPT ![p] = "exited"]
  /\ UNCHANGED <<pw, taskq, results, closed>>
  /\ UNCHANGED procFrame

ProcStep(p) ==
  \/ proc_take(p) \/ worker_outer(p) \/ worker_batch(p) \/ worker_after_busy(p)
  \/ worker_fault(p) \/ worker_wake(p) \/ proc_exit(p)

\* ------------------------------------------------- main / CPUStressTest.run
\* run() with the pool created and the tasks submitted before monitor.start()
RunOrderWorkersFirst ==
  <<"start_ts", "pool_create", "apply_async", "monitor_start",
    "pool_close", "pool_join", "sum_get", "monitor_stop", "stop_wait",
    "end_ts", "report", "done">>

\* the statements of run() in program order (lines 158-201)
RunOrder == <<"start_ts", "monitor_start", "pool_create", "apply_async",
              "pool_close", "pool_join", "sum_get", "monitor_stop", "stop_wait",
              "end_ts", "report", "done">>

After(pc) == RunOrder[(CHOOSE i \in 1..Len(RunOrder) : RunOrder[i] = pc) + 1]

\* `args.cpu_threads or cpu_info['cores']`
ThreadCount(arg, cores) == IF arg # 0 THEN arg ELSE cores

\* main hands every parsed configuration to run(): nothing is checked first
ConfigAccepted(d, pct, n) == TRUE

\* a join that returns at once
PoolJoinedAtOnce == TRUE

\* pool.join(): every pool process has exited
PoolJoined == \A p \in Procs : ppc[p] \in {"none", "exited"}

\* a sum that skips the first AsyncResult
TotalOpsSkipFirst(rs) == SumSeq(Tail(rs))

\* sum(r.get() for r in results)
TotalOps(rs) == SumSeq(rs)

MainTerminal == mainpc \in {"done", "raised", "rejected"}
MainCanStep ==
  \/ mainpc \in {"parse", "start_ts", "monitor_start", "pool_create", "apply_async",
                 "pool_close", "sum_get", "monitor_stop", "end_ts", "report"}
  \/ mainpc = "pool_join" /\ PoolJoined
  \/ mainpc = "stop_wait" /\ now >= main_ready
MainTimeBlocked == mainpc = "stop_wait" /\ now < main_ready

\* main(): parse the arguments; without --cpu print the help and return
main_parse ==
  /\ mainpc = "parse"
  /\ \E cpu \in CpuFlagValues, d \in DurationValues, pct \in PercentValues,
        arg \in ThreadArgValues, cores \in CoreValues :
       IF ~cpu
         THEN mainpc' = "done" /\ UNCHANGED cfgVars
         ELSE /\ threads' = ThreadCount(arg, cores)
              /\ duration' = d
              /\ percent' = pct
              /\ mainpc' = IF ConfigAccepted(d, pct, ThreadCount(arg, cores))
                             THEN RunOrder[1] ELSE "rejected"
  /\ UNCHANGED <<now, main_ready, repVars, monVars, poolVars>>

\* start_ts = time.time(); monitor = CPUMonitor(self.duration)
run_start_ts ==
  /\ mainpc = "start_ts"
  /\ start_ts' = now
  /\ mainpc' = After("start_ts")
  /\ UNCHANGED <<cfgVars, now, main_ready, end_ts, ops, stat, throughput, monVars, poolVars>>

run_monitor_start ==
  /\ mainpc = "monitor_start"
  /\ MonitorStart
  /\ mainpc' = After("monitor_start")
  /\ UNCHANGED <<cfgVars, now, main_ready, repVars, poolVars>>

\* multiprocessing.Pool(self.threads): ValueError unless threads >= 1
run_pool_create ==
  /\ mainpc = "pool_create"
  /\ IF threads < 1
       THEN mainpc' = "raised" /\ UNCHANGED ppc
       ELSE /\ ppc' = [p \in Procs |-> IF p <= threads THEN "idle" ELSE "none"]
            /\ mainpc' = After("pool_create")
  /\ UNCHANGED <<cfgVars, now, main_ready, repVars, monVars, pw, taskq, results, closed>>

\* one pool.apply_async(_stress_worker, ...) of the list comprehension
run_apply_async ==
  /\ mainpc = "apply_async"
  /\ results' = Append(results, Pending)
  /\ taskq' = Append(taskq, Len(results) + 1)
  /\ mainpc' = IF Len(results) + 1 >= threads THEN After("apply_async") ELSE mainpc
  /\ UNCHANGED <<cfgVars, now, main_ready, repVars, monVars, ppc, pw, closed>>

run_pool_close ==
  /\ mainpc = "pool_close"
  /\ closed' = TRUE
  /\ mainpc' = After("pool_close")
  /\ UNCHANGED <<cfgVars, now, main_ready, repVars, monVars, ppc, pw, taskq, results>>

run_pool_join ==
  /\ mainpc = "pool_join"
  /\ PoolJoined
  /\ mainpc' = After("pool_join")
  /\ UNCHANGED <<cfgVars, now, main_ready, repVars, monVars, poolVars>>

\* ops = sum(r.get() ...): get() re-raises the exception of a failed task
run_sum_get ==
  /\ mainpc = "sum_get"
  /\ IF \E i \in 1..Len(results) : results[i] = Raised
       THEN mainpc' = "raised" /\ UNCHANGED ops
       ELSE /\ \A i \in 1..Len(results) : results[i] # Pending
            /\ ops' = TotalOps(results)
            /\ mainpc' = After("sum_get")
  /\ UNCHANGED <<cfgVars, now, main_ready, start_ts, end_ts, stat, throughput, monVars, poolVars>>

run_monitor_stop ==
  /\ mainpc = "monitor_stop"
  /\ MonitorStopSignal
  /\ mainpc' = After("monitor_stop")
  /\ UNCHANGED <<cfgVars, now, repVars, poolVars>>

run_stop_wait ==
  /\ mainpc = "stop_wait"
  /\ now >= main_ready
  /\ stat' = Summary
  /\ mainpc' = After("stop_wait")
  /\ UNCHANGED <<cfgVars, now, main_ready, start_ts, end_ts, ops, throughput, monVars, poolVars>>

run_end_ts ==
  /\ mainpc = "end_ts"
  /\ end_ts' = now
  /\ mainpc' = After("end_ts")
  /\ UNCHANGED <<cfgVars, now, main_ready, start_ts, ops, stat, throughput, monVars, poolVars>>

\* elapsed = end_ts - start_ts; ops / elapsed raises ZeroDivisionError at 0
run_report ==
  /\ mainpc = "report"
  /\ IF end_ts - start_ts = 0
       THEN mainpc' = "raised" /\ UNCHANGED throughput
       ELSE /\ throughput' = (ops * TicksPerSec) \div (end_ts - start_ts)
            /\ mainpc' = After("report")
  /\ UNCHANGED <<cfgVars, now, main_ready, start_ts, end_ts, ops, stat, monVars, poolVars>>

MainStep ==
  \/ main_parse \/ run_start_ts \/ run_monitor_start \/ run_pool_create
  \/ run_apply_async \/ run_pool_close \/ run_pool_join \/ run_sum_get
  \/ run_monitor_stop \/ run_stop_wait \/ run_end_ts \/ run_report

\* ------------------------------------------------------------------- time
\* the clock moves on when every live thread and process is asleep or busy
Tick ==
  /\ ~MainTerminal
  /\ ~MainCanStep
  /\ \A p \in Procs : ~ProcCanStep(p)
  /\ \A k \in LoopIds : ~LoopCanStep(k)
  /\ \/ MainTimeBlocked
     \/ \E p \in Procs : ProcTimeBlocked(p)
     \/ \E k \in LoopIds : LoopTimeBlocked(k)
  /\ now' = now + 1
  /\ UNCHANGED <<mainpc, cfgVars, main_ready, repVars, monVars, poolVars>>

\* --------------------------------------------------------- specification
Init ==
  /\ mainpc = "parse"
  /\ threads = 0 /\ duration = 0 /\ percent = 0
  /\ now = 0 /\ main_ready = 0
  /\ start_ts = 0 /\ end_ts = 0 /\ ops = 0 /\ stat = NoStat /\ throughput = 0
  /\ running = TRUE /\ temps = <<>> /\ utils = <<>>
  /\ lt = [k \in LoopIds |-> NoLoop]
  /\ ppc = [p \in Procs |-> "none"]
  /\ pw = [p \in Procs |-> NoWorker]
  /\ taskq = <<>> /\ results = <<>> /\ closed = FALSE

LoopNext == \E k \in LoopIds : LoopStep(k)

ProcNext == \E p \in Procs : ProcStep(p)

Next == MainStep \/ LoopNext \/ ProcNext \/ Tick

Spec == Init /\ [][Next]_vars


\* -------------------------------------- the monitor driven by any caller
\* CPUMonitor(duration) used on its own: start() and stop() called in any order
\* and at any time up to MaxApiTime
api_start ==
  /\ mainpc = "api"
  /\ MonitorStart
  /\ UNCHANGED <<mainpc, cfgVars, now, main_ready, repVars, poolVars>>

api_stop ==
  /\ mainpc = "api"
  /\ MonitorStopSignal
  /\ mainpc' = "api_stop_wait"
  /\ UNCHANGED <<cfgVars, now, repVars, poolVars>>

api_stop_return ==
  /\ mainpc = "api_stop_wait"
  /\ now >= main_ready
  /\ stat' = Summary
  /\ main_ready' = 0
  /\ mainpc' = "api"
  /\ UNCHANGED <<cfgVars, now, start_ts, end_ts, ops, throughput, monVars, poolVars>>

ApiTick ==
  /\ mainpc \in {"api", "api_stop_wait"}
  /\ ~(mainpc = "api_stop_wait" /\ now >= main_ready)
  /\ \A k \in LoopIds : ~LoopCanStep(k)
  /\ now < MaxApiTime
  /\ now' = now + 1
  /\ UNCHANGED <<mainpc, cfgVars, main_ready, repVars, monVars, poolVars>>

MonitorInit ==
  /\ mainpc = "api"
  /\ threads = 0 /\ percent = 0
  /\ duration \in DurationValues
  /\ now = 0 /\ main_ready = 0
  /\ start_ts = 0 /\ end_ts = 0 /\ ops = 0 /\ stat = NoStat /\ throughput = 0
  /\ running = TRUE /\ temps = <<>> /\ utils = <<>>
  /\ lt = [k \in LoopIds |-> NoLoop]
  /\ ppc = [p \in Procs |-> "none"]
  /\ pw = [p \in Procs |-> NoWorker]
  /\ taskq = <<>> /\ results = <<>> /\ closed = FALSE

MonitorNext == api_start \/ api_stop \/ api_stop_return \/ LoopNext \/ ApiTick

MonitorSpec == MonitorInit /\ [][MonitorNext]_vars

\* ------------------------------------------- the loop threads to their end
\* start() has just been called once, as run() does; the caller may call
\* stop() at any moment or never.  Time advances whenever no thread can step
\* and one is sleeping; a thread that can step is scheduled (weak fairness).
LoopLiveInit ==
  /\ mainpc = "api"
  /\ threads = 0 /\ percent = 0
  /\ duration \in DurationValues
  /\ now = 0 /\ main_ready = 0
  /\ start_ts = 0 /\ end_ts = 0 /\ ops = 0 /\ stat = NoStat /\ throughput = 0
  /\ running = TRUE /\ temps = <<>> /\ utils = <<>>
  /\ lt = [k \in LoopIds |-> IF k = 1 THEN [NoLoop EXCEPT !.pc = "begin"] ELSE NoLoop]
  /\ ppc = [p \in Procs |-> "none"]
  /\ pw = [p \in Procs |-> NoWorker]
  /\ taskq = <<>> /\ results = <<>> /\ closed = FALSE

LiveTick ==
  /\ \A k \in LoopIds : ~LoopCanStep(k)
  /\ \E k \in LoopIds : LoopTimeBlocked(k)
  /\ now' = now + 1
  /\ UNCHANGED <<mainpc, cfgVars, main_ready, repVars, monVars, poolVars>>

LoopLiveNext == api_stop \/ LoopNext \/ LiveTick

LoopLiveSpec ==
  LoopLiveInit /\ [][LoopLiveNext]_vars /\ WF_vars(LoopNext) /\ WF_vars(LiveTick)

\* ------------------------------------------------- get_util on its own
\* CPUMonitor.get_util called directly, on any two lines of /proc/stat: the
\* counters user, idle and iowait range over 0..MaxCounter, the other four
\* stay 0; <<7, 1>> is a line too short to hold the idle field.
Snapshots ==
  { <<us, 0, 0, id, io, 0, 0>> : us \in 0..MaxCounter, id \in 0..MaxCounter,
                                 io \in 0..MaxCounter } \cup { <<7, 1>> }

\* first read of /proc/stat
get_util_first ==
  /\ lt[1].pc = "unstarted"
  /\ \E a \in Snapshots : lt' = [lt EXCEPT ![1].pc = "util_b", ![1].a = a]
  /\ UNCHANGED <<mainpc, cfgVars, now, main_ready, repVars, running, temps, utils, poolVars>>

\* time.sleep(0.1), second read, and the arithmetic
get_util_second ==
  /\ lt[1].pc = "util_b"
  /\ \E b \in Snapshots :
       lt' = [lt EXCEPT ![1].pc = "append", ![1].u = UtilOf(lt[1].a, b)]
  /\ UNCHANGED <<mainpc, cfgVars, now, main_ready, repVars, running, temps, utils, poolVars>>

\* the value is returned; the next call starts afresh
get_util_return ==
  /\ lt[1].pc = "append"
  /\ lt' = [lt EXCEPT ![1] = NoLoop]
  /\ UNCHANGED <<mainpc, cfgVars, now, main_ready, repVars, running, temps, utils, poolVars>>

UtilNext == get_util_first \/ get_util_second \/ get_util_return

UtilSpec == MonitorInit /\ [][UtilNext]_vars

\* ================================================================= claims
MonitorStarted == \E k \in LoopIds : lt[k].pc # "unstarted"
WorkersLaunched == (\E p \in Procs : ppc[p] # "none") \/ results # <<>>
AllWorkersFinished ==
  /\ Len(results) = threads
  /\ \A i \in 1..Len(results) : results[i] # Pending
  /\ \A p \in Procs : ppc[p] \in {"none", "exited"}
ValidPercent == percent \in 1..100
InvalidConfig == ~ValidPercent \/ duration <= 0 \/ threads < 1

\* C1: a configuration with target_percent outside [1,100], duration_seconds <= 0
\* or a worker count < 1 is rejected before monitor.start() and before any worker
\* is launched.  (The state before the arguments are parsed holds no
\* configuration yet.)
C1_InvalidConfigRejected ==
  (mainpc # "parse" /\ mainpc # "done" /\ InvalidConfig)
    => (~MonitorStarted /\ ~WorkersLaunched)

\* C2: monitor.start() precedes the launch of any worker; stop() is invoked only
\* after every one of the worker_count workers has finished; the summary is
\* retrieved only after that.
C2_Ordering ==
  /\ WorkersLaunched => MonitorStarted
  /\ ~running => AllWorkersFinished
  /\ stat # NoStat => (~running /\ AllWorkersFinished)

C2_Witness ==
  /\ mainpc = "done" /\ stat # NoStat /\ threads = 2
  /\ \A i \in 1..2 : results[i] > 0

RECURSIVE SumResults(_)
SumResults(n) == IF n = 0 THEN 0 ELSE results[n] + SumResults(n - 1)

TaskHolders(i) == {p \in Procs : ppc[p] \in {"outer", "inner", "sleep"} /\ pw[p].task = i}
TaskQueued(i) == \E j \in 1..Len(taskq) : taskq[j] = i
QueueCount(i) == Cardinality({j \in 1..Len(taskq) : taskq[j] = i})

\* C3: total_ops is exactly the sum of the values returned by the worker_count
\* workers: every submitted task is queued once, or run by one process, or
\* finished (never two of these, never none), and once summed, ops is the sum of
\* the worker_count results.
C3_TotalOpsExact ==
  /\ \A i \in 1..Len(results) :
       QueueCount(i) + Cardinality(TaskHolders(i))
         + (IF results[i] # Pending THEN 1 ELSE 0) = 1
  /\ mainpc \in {"monitor_stop", "stop_wait", "end_ts", "report", "done"}
       => /\ Len(results) = threads
          /\ \A i \in 1..threads : results[i] >= 0
          /\ ops = SumResults(threads)

C3_Witness ==
  /\ mainpc = "done" /\ threads = 2
  /\ results[1] > 0 /\ results[2] > 0
  /\ ops = results[1] + results[2]

WorkerReturning(p) == ppc[p] = "outer" /\ ~BeforeDeadline(p)
WorkerRunning(p) == ppc[p] \in {"outer", "inner", "sleep"}

\* C4 (as claimed): for target_percent in [1,100] a worker returns no later than
\* D plus one batch after its start (pw[p].end is its start + D).
C4_ReturnsWithinOneBatch ==
  \A p \in Procs :
    (ValidPercent /\ WorkerReturning(p)) => now <= pw[p].end + BatchTicks

\* C4 (amended): for target_percent in [1,100] a worker is never still running
\* later than D plus one batch per cycle after its start, and it runs at most D
\* cycles: it returns by start + D + D batches.
C4_ReturnsWithinBatchPerCycle ==
  \A p \in Procs :
    (ValidPercent /\ WorkerRunning(p)) => now <= pw[p].end + duration * BatchTicks

C4_Witness ==
  \E p \in Procs :
    /\ ValidPercent /\ duration = 2 /\ WorkerReturning(p)
    /\ now = pw[p].end + duration * BatchTicks
    /\ pw[p].ops > 0


\* a loop thread in the middle of an iteration; one whose inter-sample sleep is
\* over and which only has to wake up is counted as having finished it
LoopMidIteration(k) ==
  LoopInIteration(k) /\ ~(lt[k].pc = "sleep" /\ now >= lt[k].ready)

\* C5: the summary of stop() is computed only after the loop's in-flight
\* iteration has finished: once a summary exists, no loop thread is in the
\* middle of an iteration (sampling, appending or in its inter-sample sleep).
C5_SummaryAfterIteration ==
  stat # NoStat => \A k \in LoopIds : ~LoopMidIteration(k)

Idle == running /\ ~MonitorStarted
Running == running /\ MonitorStarted
Stopped == ~running
StartStep ==
  /\ running' = running
  /\ \E k \in LoopIds : LoopSlotFree(k) /\ lt'[k].pc = "begin"
StopStep == ~running' /\ mainpc' \in {"api_stop_wait", "stop_wait"}
NoSampleBeforeStart == ~MonitorStarted => (temps = <<>> /\ utils = <<>>)
StoppedIsTerminal ==
  Stopped => /\ Stopped'
             /\ \A k \in LoopIds :
                  lt[k].pc \in {"unstarted", "begin", "check"} => ~LoopInIteration(k)'

\* C6 (as claimed): Idle -> Running -> Stopped: no sample before start(); the only
\* step out of Idle is start(), into Running; the only step into Stopped is
\* stop(); once Stopped, the monitor stays Stopped and no loop thread begins an
\* iteration (a later start() appends nothing).
C6_Lifecycle ==
  /\ []NoSampleBeforeStart
  /\ [][/\ (Idle /\ ~Idle') => (Running' /\ StartStep)
        /\ (~Stopped /\ Stopped') => StopStep
        /\ StoppedIsTerminal]_vars

\* C6 (amended): as above, except that stop() on an Idle monitor is a second
\* step out of Idle, straight to Stopped.
C6_LifecycleWithEarlyStop ==
  /\ []NoSampleBeforeStart
  /\ [][/\ (Idle /\ ~Idle') => ((Running' /\ StartStep) \/ (Stopped' /\ StopStep))
        /\ (Running /\ ~Running') => (Stopped' /\ StopStep)
        /\ (~Stopped /\ Stopped') => StopStep
        /\ StoppedIsTerminal]_vars

\* a thread started after a stop() that followed some sampling has ended at
\* once, within its duration
C6_Witness ==
  /\ Stopped /\ stat # NoStat /\ duration > 0
  /\ temps # <<>>
  /\ \E k \in LoopIds : lt[k].pc = "done" /\ lt[k].start = now

\* C7: when a worker has failed, run() fails (it never goes on to stop the
\* monitor and report), and the failure reaches the caller only when every
\* launched worker has finished and every pool process has exited.
C7_FaultAfterJoin ==
  (\E i \in 1..Len(results) : results[i] = Raised)
    => /\ mainpc \notin {"monitor_stop", "stop_wait", "end_ts", "report", "done"}
       /\ mainpc = "raised" => AllWorkersFinished

C7_Witness ==
  /\ mainpc = "raised" /\ threads = 2
  /\ \E i, j \in 1..2 : results[i] = Raised /\ results[j] >= BatchSize

\* C8: a failure inside a sampler never stops the sampling loop: no loop thread
\* is ever ended by a sampler's exception.
C8_SamplerFailureSwallowed == \A k \in LoopIds : lt[k].pc # "crashed"

\* C9: with target_percent = 100 the idle fraction is 0 and no worker is ever in
\* the sleep step.
C9_NoSleepAtFullLoad ==
  percent = 100 => /\ IdleHundredths(percent) = 0
                   /\ \A p \in Procs : ppc[p] # "sleep"

\* a worker at full load back at the deadline test after a busy phase, with
\* another cycle to come
C9_Witness ==
  \E p \in Procs :
    /\ percent = 100 /\ ppc[p] = "outer"
    /\ pw[p].ops >= BatchSize /\ BeforeDeadline(p)

\* C10: every stored temperature and every stored utilization is > 0.
C10_SeriesPositive ==
  /\ \A i \in 1..Len(temps) : temps[i] > 0
  /\ \A i \in 1..Len(utils) : utils[i] > 0

\* iterations have dropped a reading of one kind while storing the other
C10_Witness ==
  /\ temps # <<>> /\ utils # <<>>
  /\ Len(temps) # Len(utils)

\* C11: stop() returns a summary also when the temperature series, the
\* utilization series or both are empty: every summary field computed from an
\* empty series is 0 (so all four are 0 when both are empty), and a field of
\* a non-empty series lies between the least and the greatest of its samples.
SummaryReturned == stat' # stat

C11_EmptySeriesSummary ==
  [][SummaryReturned =>
       /\ temps = <<>> => /\ stat'.avg_temp = 0
                           /\ stat'.max_temp = 0
                           /\ stat'.min_temp = 0
       /\ utils = <<>> => stat'.avg_util = 0
       /\ temps # <<>> => /\ stat'.min_temp <= stat'.avg_temp
                           /\ stat'.avg_temp <= stat'.max_temp
                           /\ stat'.min_temp > 0
       /\ utils # <<>> => stat'.avg_util > 0]_vars

C11_Witness ==
  /\ stat # NoStat
  /\ temps = <<>>
  /\ utils # <<>>
  /\ stat.avg_temp = 0 /\ stat.max_temp = 0 /\ stat.min_temp = 0
  /\ stat.avg_util > 0

\* run() has taken its end timestamp (main without --cpu runs nothing);
\* elapsed_seconds is end_ts - start_ts
Reported == mainpc \in {"report", "done"} /\ stat # NoStat
Elapsed == end_ts - start_ts

\* C12 (as stated): for a valid configuration the reported elapsed_seconds is
\* within 0.5 s of the configured duration_seconds.
C12_ElapsedWithinHalfSecond ==
  (Reported /\ ~InvalidConfig) =>
     /\ (Elapsed - duration * TicksPerSec) * 1000 <= StopWaitMs * TicksPerSec
     /\ (duration * TicksPerSec - Elapsed) * 1000 <= StopWaitMs * TicksPerSec

\* C12 (amended): the reported elapsed_seconds is never less than
\* duration_seconds + 0.5 s, since every worker runs for at least the duration
\* and stop() then waits 500 ms before the end timestamp is taken; for a target
\* percent in [1,100] it exceeds duration_seconds + 0.5 s by at most one batch
\* per cycle of the workers (pool start-up and tear-down taking no time).
C12_ElapsedAtLeastHalfSecondOver ==
  Reported =>
     /\ Elapsed * 1000 >= (duration * 1000 + StopWaitMs) * TicksPerSec
     /\ ValidPercent =>
          Elapsed <= duration * TicksPerSec + duration * BatchTicks
                       + MsTicks(StopWaitMs)

C12_Witness ==
  /\ Reported
  /\ ~InvalidConfig
  /\ duration = MaxDuration
  /\ Elapsed * 1000 > (duration * 1000 + StopWaitMs) * TicksPerSec

\* C13: for any two snapshots of the seven counters, the value get_util
\* returns lies in [0,100] (here in thousandths of a percent).
C13_UtilInRange ==
  \A k \in LoopIds :
     lt[k].pc = "append" => (0 <= lt[k].u /\ lt[k].u <= 100000)

\* C14: the sampling loop begins a new iteration only if the stop signal is
\* not set and less than `duration` has passed since the loop started, so no
\* iteration begins at or after loop start + duration; and every loop thread
\* eventually ends, also when stop() is never called.
IterationBegins(k) == lt[k].pc = "check" /\ lt'[k].pc = "temp"

C14_LoopTerminates ==
  /\ [][\A k \in LoopIds :
          IterationBegins(k) =>
            running /\ now < lt[k].start + duration * TicksPerSec]_vars
  /\ <>(\A k \in LoopIds : ~LoopActive(k))

C14_Witness ==
  /\ running
  /\ duration = MaxDuration
  /\ temps # <<>>
  /\ lt[1].pc = "done"
  /\ now >= lt[1].start + duration * TicksPerSec

\* C15: workers share no mutable state: a step that changes one worker's
\* locals (operation counter, deadline, cycle start) leaves those of every
\* other worker as they were; and a worker hands its counter over exactly once,
\* at completion: a result, once set, never changes, and it is set to the
\* counter of the worker running that task, when that worker returns.
C15_WorkersIsolated ==
  [][/\ \A p \in Procs : \A q \in Procs \ {p} :
          pw'[p] # pw[p] => pw'[q] = pw[q]
     /\ \A i \in 1..Len(results) :
          /\ results[i] # Pending => results'[i] = results[i]
          /\ (results[i] = Pending /\ results'[i] \notin {Pending, Raised}) =>
               \E p \in Procs : /\ WorkerReturning(p)
                                 /\ pw[p].task = i
                                 /\ results'[i] = pw[p].ops]_vars

C15_Witness ==
  \E p \in Procs : \E q \in Procs \ {p} :
     /\ ppc[p] = "inner" /\ ppc[q] = "inner"
     /\ pw[p].ops = BatchSize
     /\ pw[q].ops = 0
     /\ pw[p].end = pw[q].end

\* C16: every cycle of a worker is a busy phase followed by at most one sleep:
\* the busy phase ends only once at least work_fraction seconds have passed
\* since the cycle began; the sleep follows if and only if target_percent <
\* 100; a sleep is entered from a busy phase only and is followed by the
\* deadline test, so there are never two sleeps without a busy phase between;
\* and the deadline is tested only between cycles: a worker inside its busy
\* phase or its sleep does not return (it can only fail).
BusyPhaseEnds(p) == ppc[p] = "inner" /\ ppc'[p] \in {"sleep", "outer"}

C16_CycleShape ==
  [][\A p \in Procs :
       /\ BusyPhaseEnds(p) =>
            /\ (now - pw[p].s) * 100 >= percent * TicksPerSec
            /\ percent >= 1 => (pw[p].ops > 0 /\ now > pw[p].s)
            /\ (ppc'[p] = "sleep") <=> (percent < 100)
       /\ (ppc'[p] = "sleep" /\ ppc[p] # "sleep") => ppc[p] = "inner"
       /\ ppc[p] = "sleep" => ppc'[p] \in {"sleep", "outer"}
       /\ (ppc[p] \in {"inner", "sleep"} /\ ppc'[p] = "idle") =>
            results'[pw[p].task] = Raised]_vars

C16_Witness ==
  \E p \in Procs :
     /\ ValidPercent
     /\ ppc[p] = "sleep"
     /\ pw[p].ops >= 2 * BatchSize
     /\ now > pw[p].end

\* Position of a loop thread on the way from the start of an iteration to
\* the thread's end; a thread not yet at its first while test stands with
\* those that have just finished an iteration.
LoopRank(pc) ==
  CASE pc = "temp" -> 1
    [] pc = "util_a" -> 2
    [] pc = "util_b" -> 3
    [] pc = "append" -> 4
    [] pc \in {"sleep", "begin"} -> 5
    [] pc = "check" -> 6
    [] OTHER -> 7
AppendStep(k) == lt[k].pc = "append" /\ lt'[k].pc = "sleep"

\* C17: after stop() has set the stop signal, a sampling loop appends at most
\* one further sample to each series, whatever the interleaving: the series
\* grow only in the append step of an iteration, by at most one sample each,
\* and once the signal is set a loop thread only moves forward through the
\* iteration it is in and then ends (a thread started later ends at its first
\* test), so it passes the append step at most once.
C17_AtMostOneAppendAfterStop ==
  [][/\ (temps' # temps \/ utils' # utils) =>
          /\ \E k \in LoopIds : AppendStep(k)
          /\ temps' \in {temps} \cup {Append(temps, x) : x \in TempRaws}
          /\ Len(utils') <= Len(utils) + 1
          /\ SubSeq(utils', 1, Len(utils)) = utils
     /\ Stopped =>
          /\ Stopped'
          /\ \A k \in LoopIds :
               \/ LoopRank(lt'[k].pc) >= LoopRank(lt[k].pc)
               \/ LoopSlotFree(k) /\ lt'[k].pc = "begin"]_vars

C17_Witness ==
  /\ Stopped
  /\ mainpc = "api_stop_wait"
  /\ Len(temps) = 1 /\ Len(utils) = 1
  /\ \E k \in LoopIds :
       /\ lt[k].pc = "sleep"
       /\ lt[k].ready > main_ready
       /\ lt[k].ready = lt[k].start + MsTicks(UtilGapMs) + MsTicks(SampleGapMs)

\* C18: a worker's operation counter never decreases while the worker runs
\* and is always a multiple of 200; a worker run with duration > 0 and
\* target percent >= 1 executes at least one batch, so the value it returns is
\* at least 200, and total_ops > 0 whenever there is at least one worker.
C18_CounterInBatches ==
  /\ [](/\ \A p \in Procs : pw[p].ops >= 0 /\ pw[p].ops % BatchSize = 0
        /\ \A i \in 1..Len(results) :
             results[i] \notin {Pending, Raised} =>
               /\ results[i] >= 0 /\ results[i] % BatchSize = 0
               /\ (duration > 0 /\ percent >= 1) => results[i] >= BatchSize
        /\ (Reported /\ duration > 0 /\ percent >= 1) => ops > 0)
  /\ [][\A p \in Procs :
          (WorkerRunning(p) /\ WorkerRunning(p)') => pw'[p].ops >= pw[p].ops]_vars

C18_Witness ==
  /\ Reported
  /\ duration = 1 /\ percent = 1 /\ threads = MaxThreads
  /\ \A i \in 1..Len(results) : results[i] = BatchSize
  /\ ops = MaxThreads * BatchSize

\* C19: whenever the throughput total_ops / elapsed is computed, elapsed is
\* strictly positive, for every duration including 0: the end timestamp is
\* taken after the join and after the 500 ms wait of stop(), so elapsed is at
\* least 0.5 s, and run() never fails in the division (it fails only when the
\* pool cannot be created or a worker raised).
C19_ElapsedPositive ==
  /\ Reported => (Elapsed > 0 /\ Elapsed * 1000 >= StopWaitMs * TicksPerSec)
  /\ mainpc = "raised" =>
       (threads < 1 \/ \E i \in 1..Len(results) : results[i] = Raised)

C19_Witness ==
  /\ mainpc = "done"
  /\ stat # NoStat
  /\ duration = 0
  /\ threads = MaxThreads
  /\ Elapsed = MsTicks(StopWaitMs)
  /\ throughput = 0

====
